---- MODULE Spec2Model ----
(***************************************************************************)
(* Honeybee "infORventPerArea Calculator" (Grasshopper / IronPython 2.7). *)
(*                                                                         *)
(* The component is one script: a host readiness check, a gate on the     *)
(* inputs, checkInputs() and main().  The model follows the script top to *)
(* bottom with a program counter; one action per block of the script and  *)
(* one action per iteration of main()'s loop over the zones.              *)
(*                                                                         *)
(* Numbers.  Python floats are modelled as exact rationals <<n, d>> in    *)
(* lowest terms with d > 0 (rounding of IEEE doubles is not modelled).    *)
(* A Python number carries its type, because `/` on two ints is floor     *)
(* division in Python 2: [kind |-> "int" | "float" | "none", val |-> q].  *)
(***************************************************************************)
EXTENDS Integers, Sequences, FiniteSets, TLC

VARIABLES
    _HBZones,           \* input: list of zone handles ("None" = null)
    _airFlowRate,       \* input: Python number or None
    _ACHorM3sM2_,       \* input: "True", "False" or "None"
    _blowerPressure_,   \* input: Python number or None
    host,               \* state of sc.sticky seen by the Honeybee check
    pc,                 \* position in the script
    initCheck,          \* line 141
    checkData,          \* checkInputs() result
    unit,               \* checkInputs() result
    count,              \* main(): zones processed so far
    standardFlowRate,   \* main(): local of the last iteration
    infPerAreaFacade,   \* main(): local list
    ventPerAreaFloor,   \* main(): local list
    allExposed,         \* main(): local list
    allFloors,          \* main(): local list
    result,             \* the four module-level outputs (line 167)
    messages,           \* ghenv.Component.AddRuntimeMessage(w, ...)
    report,             \* print (the readMe! output)
    exc                 \* exception that left the script, "none" if none

vars == <<_HBZones, _airFlowRate, _ACHorM3sM2_, _blowerPressure_, host, pc,
          initCheck, checkData, unit, count, standardFlowRate,
          infPerAreaFacade, ventPerAreaFloor, allExposed, allFloors,
          result, messages, report, exc>>

inputs == <<_HBZones, _airFlowRate, _ACHorM3sM2_, _blowerPressure_, host>>

mainLocals == <<count, standardFlowRate, infPerAreaFacade, ventPerAreaFloor,
                allExposed, allFloors>>

(***************************************************************************)
(* Bounds and program constants                                            *)
(***************************************************************************)
MaxZones == 2

SecondsPerHour == 3600
NaturalPressure == 4
FloorType == 2
TypeScale == 100
FmtScale == 10000

(***************************************************************************)
(* Rational arithmetic                                                      *)
(***************************************************************************)
Abs(x) == IF x < 0 THEN -x ELSE x

RECURSIVE GCD(_, _)
GCD(a, b) == IF b = 0 THEN a ELSE GCD(b, a % b)

Rat(n, d) ==
    LET s == IF d < 0 THEN -1 ELSE 1
        g == GCD(Abs(n), Abs(d))
    IN  <<(s * n) \div g, (s * d) \div g>>

RZero == <<0, 1>>
ROne == <<1, 1>>
RInt(k) == <<k, 1>>
RMul(a, b) == Rat(a[1] * b[1], a[2] * b[2])
RDiv(a, b) == Rat(a[1] * b[2], a[2] * b[1])
RLess(a, b) == a[1] * b[2] < b[1] * a[2]
RIsZero(a) == a[1] = 0
RFloor(a) == a[1] \div a[2]

(***************************************************************************)
(* Python values                                                            *)
(***************************************************************************)
PyNone == [kind |-> "none", val |-> RZero]
PyInt(k) == [kind |-> "int", val |-> RInt(k)]
PyFloat(n, d) == [kind |-> "float", val |-> Rat(n, d)]

\* bool(x): None, 0 and 0.0 are falsy (line 162, `and _airFlowRate and`).
Truthy(x) == x.kind # "none" /\ ~RIsZero(x.val)

\* x < 0 (line 64).  Python 2 orders None below every number.
LessThanZero(x) == IF x.kind = "none" THEN TRUE ELSE RLess(x.val, RZero)

\* x / k for an int literal k (line 100): floor division on ints.
PyDivInt(x, k) ==
    IF x.kind = "int"
    THEN RInt(x.val[1] \div k)
    ELSE RDiv(x.val, RInt(k))

(***************************************************************************)
(* The Honeybee hive: zone handles to zone objects (external collaborator) *)
(***************************************************************************)
Srf(t, bc, g) == [type |-> t, BC |-> bc, geometry |-> g]

Hive ==
    [ id \in {"zA", "zB", "zC", "zD"} |->
        CASE id = "zA" ->
               [name |-> "A", exposedArea |-> RInt(50), floorArea |-> RInt(20),
                volume |-> RInt(100),
                surfaces |-> << Srf(0, "Outdoors", "gA1"),
                                Srf(200, "Surface", "gA2"),
                                Srf(275, "outdoors", "gA3") >>]
          [] id = "zB" ->
               [name |-> "B", exposedArea |-> RZero, floorArea |-> RInt(10),
                volume |-> RInt(30),
                surfaces |-> << Srf(250, "Ground", "gB1"),
                                Srf(0, "Adiabatic", "gB2") >>]
          [] id = "zC" ->
               [name |-> "C", exposedArea |-> RInt(40), floorArea |-> RZero,
                volume |-> RInt(60),
                surfaces |-> << Srf(100, "OUTDOORS", "gC1"),
                                Srf(300, "Surface", "gC2") >>]
          [] id = "zD" ->
               [name |-> "D", exposedArea |-> RZero, floorArea |-> RZero,
                volume |-> RInt(45),
                surfaces |-> << >>] ]

ZoneIds == DOMAIN Hive

(***************************************************************************)
(* Pure steps of main()                                                     *)
(***************************************************************************)
\* math.pow(q, 0.63) on the quotients the inputs below produce, to three
\* decimals.  math.pow raises ValueError on a negative base with a
\* non-integer exponent (PowRaises); math.pow(0, 0.63) is 0.0.
PowRaises(q) == RLess(q, RZero)

Pow063(q) ==
    CASE q = RZero       -> RZero
      [] q = ROne        -> ROne
      [] q = Rat(1, 2)   -> Rat(646, 1000)
      [] q = Rat(5, 4)   -> Rat(1151, 1000)
      [] q = RInt(12)    -> Rat(4785, 1000)
      [] q = Rat(25, 2)  -> Rat(4910, 1000)

\* Faulty variant of BaseFlow: the area branch multiplies by the floor area.
BaseFlowFloorArea(rate, isACH, HZone) ==
    IF isACH
    THEN RDiv(RMul(rate.val, HZone.volume), RInt(SecondsPerHour))
    ELSE RMul(rate.val, HZone.floorArea)

\* Lines 92-96: the flow rate in m3/s before any pressure conversion.
BaseFlow(rate, isACH, HZone) ==
    IF isACH
    THEN RDiv(RMul(rate.val, HZone.volume), RInt(SecondsPerHour))
    ELSE RMul(rate.val, HZone.exposedArea)

\* Faulty variant of NeedsCorrection: the `!= 0` test is missing.
NeedsCorrectionNoZeroTest(bp) == bp.kind # "none"

\* Line 99: `_blowerPressure_ != None and _blowerPressure_ != 0`.
NeedsCorrection(bp) == bp.kind # "none" /\ ~RIsZero(bp.val)

\* Line 100: `_blowerPressure_/4`.
PressureQuotient(bp) == PyDivInt(bp, NaturalPressure)

\* Line 100: the exception the conversion raises, "none" if it returns.
FlowError(bp) ==
    IF ~NeedsCorrection(bp) THEN "none"
    ELSE IF PowRaises(PressureQuotient(bp)) THEN "ValueError"
    ELSE IF RIsZero(Pow063(PressureQuotient(bp))) THEN "ZeroDivisionError"
    ELSE "none"

\* Lines 99-100: standardFlowRate after the conversion (when it returns).
CorrectedFlow(base, bp) ==
    IF NeedsCorrection(bp)
    THEN RDiv(base, Pow063(PressureQuotient(bp)))
    ELSE base

\* '%.4f' % x for x >= 0: the nearest multiple of 1/10000, as its count.
Fmt4(x) == (2 * FmtScale * x[1] + x[2]) \div (2 * x[2])

\* Lines 107-115 and 118-126: flow / area, or 0 when the division raises.
AreaRaises(area) == RIsZero(area)

\* Faulty variant of Intensity: the flow is appended undivided.
IntensityUndivided(flow, area) == IF AreaRaises(area) THEN RZero ELSE flow

Intensity(flow, area) == IF AreaRaises(area) THEN RZero ELSE RDiv(flow, area)

\* Faulty variant of AppendTo: list.insert(0, v).
InsertFirst(list, v) == <<v>> \o list

\* list.append
AppendTo(list, v) == Append(list, v)

ExposedWarning == "One of the HBZones did not have any esposed surface area."
FloorWarning == "One of the HBZones did not have any floor area."
RateWarning == "Give a value for airChangeHour bigger than 0."
FlyWarning == "You should first let Honeybee fly..."
VersionWarning == "You need a newer version of Honeybee to use this compoent."

ZoneWarnings(HZone) ==
    (IF AreaRaises(HZone.exposedArea) THEN <<ExposedWarning>> ELSE << >>)
    \o (IF AreaRaises(HZone.floorArea) THEN <<FloorWarning>> ELSE << >>)

\* int(srf.type) on a type code kept in hundredths (2.75 is 275).
IntOfType(t) == t \div TypeScale

\* Faulty variant of IsFloor: `srf.type == 2` without int().
IsFloorExact(srf) == srf.type = FloorType * TypeScale

\* Line 131.
IsFloor(srf) == IntOfType(srf.type) = FloorType

\* str.lower() on the boundary-condition names the hive holds.
Lower(s) ==
    CASE s = "Outdoors" -> "outdoors"
      [] s = "OUTDOORS" -> "outdoors"
      [] s = "Ground"   -> "ground"
      [] s = "Surface"  -> "surface"
      [] s = "Adiabatic" -> "adiabatic"
      [] OTHER -> s

\* Line 134.
IsExposed(srf) == Lower(srf.BC) = "outdoors"

Geometries(srfs) == [i \in 1..Len(srfs) |-> srfs[i].geometry]

\* Lines 129-132 and 133-135.
FloorGeometries(HZone) == Geometries(SelectSeq(HZone.surfaces, IsFloor))
ExposedGeometries(HZone) == Geometries(SelectSeq(HZone.surfaces, IsExposed))

\* Line 103: the report line of a zone.
FlowLine(HZone, flow) == <<"flow", HZone.name, Fmt4(flow)>>
NoteLine(text) == <<"note", text, 0>>

NoteLines(texts) == [i \in 1..Len(texts) |-> NoteLine(texts[i])]

(***************************************************************************)
(* Inputs                                                                   *)
(***************************************************************************)
Handles == ZoneIds \cup {"None"}

ZoneLists ==
    { s \in UNION { [1..n -> Handles] : n \in 0..MaxZones } :
        \A i \in 2..Len(s) : s[i] # "None" }

Rates == { PyNone, PyFloat(0, 1), PyInt(-1), PyFloat(1, 2), PyInt(2) }

Flags == { "None", "True", "False" }

Pressures == { PyNone, PyInt(0), PyInt(2), PyFloat(2, 1), PyInt(5),
               PyFloat(5, 1), PyInt(50), PyFloat(50, 1), PyFloat(-50, 1) }

Hosts == { "noRelease", "incompatible", "inputMissing", "hiveRaises", "ready" }

NoResult == [set |-> FALSE, infPerAreaFacade |-> << >>,
             ventPerAreaFloor |-> << >>, allExposed |-> << >>,
             allFloors |-> << >>]

Init ==
    /\ _HBZones \in ZoneLists
    /\ _airFlowRate \in Rates
    /\ _ACHorM3sM2_ \in Flags
    /\ _blowerPressure_ \in Pressures
    /\ host \in Hosts
    /\ pc = "honeybeeCheck"
    /\ initCheck = TRUE
    /\ checkData = FALSE
    /\ unit = TRUE
    /\ count = 0
    /\ standardFlowRate = RZero
    /\ infPerAreaFacade = << >>
    /\ ventPerAreaFloor = << >>
    /\ allExposed = << >>
    /\ allFloors = << >>
    /\ result = NoResult
    /\ messages = << >>
    /\ report = << >>
    /\ exc = "none"

(***************************************************************************)
(* The script                                                               *)
(***************************************************************************)
\* Lines 140-157.
HostReady(h) == h = "ready"

HostMessages(h) ==
    IF h = "noRelease" THEN <<FlyWarning>>
    ELSE IF h = "hiveRaises" THEN <<VersionWarning>>
    ELSE << >>

HostPrints(h) == IF h = "noRelease" THEN <<NoteLine(FlyWarning)>> ELSE << >>

HoneybeeCheck ==
    /\ pc = "honeybeeCheck"
    /\ initCheck' = HostReady(host)
    /\ messages' = messages \o HostMessages(host)
    /\ report' = report \o HostPrints(host)
    /\ pc' = "gate"
    /\ UNCHANGED <<inputs, checkData, unit, mainLocals, result, exc>>

\* Faulty variant of GatePasses: the `and _airFlowRate` test is missing.
GateIgnoresRate(HBZones, rate, ready) == HBZones # << >> /\ ready = TRUE

\* Line 162.
GatePasses(HBZones, rate, ready) ==
    HBZones # << >> /\ Truthy(rate) /\ ready = TRUE

Gate ==
    /\ pc = "gate"
    /\ pc' = IF GatePasses(_HBZones, _airFlowRate, initCheck)
             THEN "checkInputs" ELSE "end"
    /\ UNCHANGED <<inputs, initCheck, checkData, unit, mainLocals, result,
                   messages, report, exc>>

\* Faulty variant of RateRejected: `_airFlowRate < -1`.
RateRejectedBelowMinusOne(rate) ==
    IF rate.kind = "none" THEN TRUE ELSE RLess(rate.val, RInt(-1))

\* Lines 62-76.
RateRejected(rate) == LessThanZero(rate)
FirstZoneNull(HBZones) == HBZones[1] = "None"
CheckData(rate, HBZones) == ~RateRejected(rate) /\ ~FirstZoneNull(HBZones)
Unit(flag) == IF flag = "None" THEN TRUE ELSE flag = "True"
CheckMessages(rate) == IF RateRejected(rate) THEN <<RateWarning>> ELSE << >>

\* Lines 163-164.
CheckInputs ==
    /\ pc = "checkInputs"
    /\ checkData' = CheckData(_airFlowRate, _HBZones)
    /\ unit' = Unit(_ACHorM3sM2_)
    /\ messages' = messages \o CheckMessages(_airFlowRate)
    /\ report' = report \o NoteLines(CheckMessages(_airFlowRate))
    /\ pc' = IF checkData' = TRUE THEN "main" ELSE "end"
    /\ UNCHANGED <<inputs, initCheck, mainLocals, result, exc>>

\* Line 85: hb_hive.visualizeFromHoneybeeHive(HBZones).
Zones(HBZones) == [i \in 1..Len(HBZones) |-> Hive[HBZones[i]]]

\* Lines 79-85.
MainStart ==
    /\ pc = "main"
    /\ infPerAreaFacade' = << >>
    /\ ventPerAreaFloor' = << >>
    /\ allExposed' = << >>
    /\ allFloors' = << >>
    /\ count' = 0
    /\ pc' = "loop"
    /\ UNCHANGED <<inputs, initCheck, checkData, unit, standardFlowRate,
                   result, messages, report, exc>>

\* Lines 87-135: one iteration of the loop.  An exception raised on line
\* 100 is outside both try blocks and leaves main() and the script.
ZoneStep ==
    /\ pc = "loop"
    /\ count < Len(_HBZones)
    /\ LET HZone == Zones(_HBZones)[count + 1]
           base == BaseFlow(_airFlowRate, unit, HZone)
           err == FlowError(_blowerPressure_)
           flow == CorrectedFlow(base, _blowerPressure_)
       IN  IF err # "none"
           THEN /\ exc' = err
                /\ pc' = "raised"
                /\ UNCHANGED <<mainLocals, messages, report>>
           ELSE /\ standardFlowRate' = flow
                /\ infPerAreaFacade' =
                     AppendTo(infPerAreaFacade, Intensity(flow, HZone.exposedArea))
                /\ ventPerAreaFloor' =
                     AppendTo(ventPerAreaFloor, Intensity(flow, HZone.floorArea))
                /\ allFloors' = allFloors \o FloorGeometries(HZone)
                /\ allExposed' = allExposed \o ExposedGeometries(HZone)
                /\ messages' = messages \o ZoneWarnings(HZone)
                /\ report' = report \o <<FlowLine(HZone, flow)>>
                                    \o NoteLines(ZoneWarnings(HZone))
                /\ count' = count + 1
                /\ UNCHANGED <<pc, exc>>
    /\ UNCHANGED <<inputs, initCheck, checkData, unit, result>>

\* Lines 137 and 165-167.
MainReturn ==
    /\ pc = "loop"
    /\ count = Len(_HBZones)
    /\ result' = [set |-> TRUE,
                  infPerAreaFacade |-> infPerAreaFacade,
                  ventPerAreaFloor |-> ventPerAreaFloor,
                  allExposed |-> allExposed,
                  allFloors |-> allFloors]
    /\ pc' = "end"
    /\ UNCHANGED <<inputs, initCheck, checkData, unit, mainLocals, messages,
                   report, exc>>

Next ==
    \/ HoneybeeCheck
    \/ Gate
    \/ CheckInputs
    \/ MainStart
    \/ ZoneStep
    \/ MainReturn

Spec == Init /\ [][Next]_vars

(***************************************************************************)
(* Properties                                                               *)
(***************************************************************************)
NumZones == Len(_HBZones)
ZoneAt(i) == Zones(_HBZones)[i]

\* main() was called: the gate passed and checkInputs() returned True.
MainCalled == pc \in {"main", "loop", "raised"} \/ result.set

\* The script is over, by its last line or by an exception.
Finished == pc \in {"end", "raised"}

\* The flow main() computes for zone i (lines 92-100).
UncorrectedFlow(i) == BaseFlow(_airFlowRate, unit, ZoneAt(i))
ZoneFlow(i) == CorrectedFlow(UncorrectedFlow(i), _blowerPressure_)

NoCorrection == _blowerPressure_.kind = "none" \/ RIsZero(_blowerPressure_.val)

RECURSIVE SurfacesUpTo(_)
SurfacesUpTo(k) ==
    IF k = 0 THEN << >> ELSE SurfacesUpTo(k - 1) \o ZoneAt(k).surfaces

TypeIsTwo(srf) == srf.type = 200
TypeTruncatesToTwo(srf) == srf.type \in {200, 250, 275}

HasZeroAreaZone ==
    \E i \in 1..NumZones :
        _HBZones[i] # "None"
        /\ (RIsZero(ZoneAt(i).exposedArea) \/ RIsZero(ZoneAt(i).floorArea))

\* checkInputs() is reached and returns checkData False (lines 64-71).
InvalidInput ==
    /\ GatePasses(_HBZones, _airFlowRate, HostReady(host))
    /\ (RLess(_airFlowRate.val, RZero) \/ _HBZones[1] = "None")

\* C1: whenever main() completes for n zones, infPerAreaFacade and
\* ventPerAreaFloor each have exactly n elements and element i of each is the
\* value computed for zone i, whichever zones took the zero-area fallback.
C1_OutputsParallelToZones ==
    result.set =>
        /\ Len(result.infPerAreaFacade) = NumZones
        /\ Len(result.ventPerAreaFloor) = NumZones
        /\ \A i \in 1..NumZones :
             /\ result.infPerAreaFacade[i] =
                  Intensity(ZoneFlow(i), ZoneAt(i).exposedArea)
             /\ result.ventPerAreaFloor[i] =
                  Intensity(ZoneFlow(i), ZoneAt(i).floorArea)

C1_Witness ==
    /\ result.set
    /\ _HBZones = <<"zB", "zA">>
    /\ result.infPerAreaFacade[1] = RZero
    /\ result.infPerAreaFacade[2] # RZero
    /\ result.ventPerAreaFloor[1] # result.ventPerAreaFloor[2]

\* C2: for every zone whose exposed (resp. floor) area is zero, main() outputs
\* 0 for its infPerAreaFacade (resp. ventPerAreaFloor), no error escapes, and
\* every later zone is still processed and gets its two outputs.
C2_ZeroAreaNeverHalts ==
    (Finished /\ checkData = TRUE /\ HasZeroAreaZone) =>
        /\ exc = "none"
        /\ result.set
        /\ Len(result.infPerAreaFacade) = NumZones
        /\ Len(result.ventPerAreaFloor) = NumZones
        /\ \A i \in 1..NumZones :
             /\ RIsZero(ZoneAt(i).exposedArea) =>
                  result.infPerAreaFacade[i] = RZero
             /\ RIsZero(ZoneAt(i).floorArea) =>
                  result.ventPerAreaFloor[i] = RZero

\* C3 as stated: after main() runs, allFloors holds exactly the geometries of
\* the surfaces whose type code is exactly 2.
C3_ExactTypeTwoOnly ==
    result.set =>
        result.allFloors =
            Geometries(SelectSeq(SurfacesUpTo(NumZones), TypeIsTwo))

\* C3 as amended: after main() runs, allFloors holds, in zone and surface
\* order, exactly the geometries of the surfaces whose type code truncates to
\* 2: floors (2), ground floors (2.5) and exposed floors (2.75).
C3_TruncatedTypeTwo ==
    result.set =>
        result.allFloors =
            Geometries(SelectSeq(SurfacesUpTo(NumZones), TypeTruncatesToTwo))

C3_Witness ==
    /\ result.set
    /\ \E i \in 1..Len(result.allFloors) : result.allFloors[i] \in {"gB1", "gA3"}

\* C4: main() is called and the outputs are assigned only if the zone list is
\* non-empty, airFlowRate is non-zero and not negative, the host check
\* succeeded and the first zone is not null.
C4_OutputsOnlyWhenGated ==
    MainCalled =>
        /\ _HBZones # << >>
        /\ _airFlowRate.kind # "none"
        /\ RLess(RZero, _airFlowRate.val)
        /\ host = "ready"
        /\ _HBZones[1] # "None"

C4_Witness == result.set /\ pc = "end" /\ Len(result.infPerAreaFacade) > 0

\* C5: when blowerPressure is 0 or absent the pressure conversion is the
\* identity: no error, and for every zone the flow used for both intensities
\* is the uncorrected flow.
C5_NoPressureIsIdentity ==
    NoCorrection =>
        /\ exc = "none"
        /\ count > 0 =>
             /\ standardFlowRate = UncorrectedFlow(count)
             /\ infPerAreaFacade[count] =
                  Intensity(UncorrectedFlow(count), ZoneAt(count).exposedArea)
             /\ ventPerAreaFloor[count] =
                  Intensity(UncorrectedFlow(count), ZoneAt(count).floorArea)

C5_Witness ==
    /\ _blowerPressure_ = PyInt(0)
    /\ count > 0
    /\ ~RIsZero(standardFlowRate)

\* C6: for every zone and every blowerPressure > 4 the corrected flow is
\* strictly less than the uncorrected flow.
C6_CorrectionStrictlyReduces ==
    (/\ _blowerPressure_.kind # "none"
     /\ RLess(RInt(NaturalPressure), _blowerPressure_.val)
     /\ count > 0)
        => RLess(standardFlowRate, UncorrectedFlow(count))

\* C7 as stated: in area mode with no pressure correction the facade
\* intensity output of every zone equals the input rate.
C7_FacadeEqualsRate ==
    (result.set /\ unit = FALSE /\ NoCorrection) =>
        \A i \in 1..NumZones : result.infPerAreaFacade[i] = _airFlowRate.val

\* C7 as amended: in area mode with no pressure correction the facade
\* intensity output equals the input rate for every zone with a non-zero
\* exposed area, and is 0 for every zone whose exposed area is zero.
C7_FacadeEqualsRateWhereExposed ==
    (result.set /\ unit = FALSE /\ NoCorrection) =>
        \A i \in 1..NumZones :
            result.infPerAreaFacade[i] =
                IF RIsZero(ZoneAt(i).exposedArea)
                THEN RZero ELSE _airFlowRate.val

C7_Witness ==
    /\ result.set
    /\ unit = FALSE
    /\ NoCorrection
    /\ _HBZones = <<"zA", "zB">>
    /\ result.infPerAreaFacade = <<_airFlowRate.val, RZero>>

\* C8: no exception propagates out of the per-zone computation of main(),
\* whatever the rate, mode flag, blower pressure and zone areas.
C8_NoExceptionEscapes == pc # "raised"

\* C9 as stated: every InvalidInput outcome of checkInputs() (negative flow
\* rate or null first zone) blocks the batch and is reported with a message.
C9_InvalidInputBlockedAndReported ==
    (pc = "end" /\ InvalidInput) => (~result.set /\ Len(messages) > 0)

\* C9 as amended: every InvalidInput outcome of checkInputs() blocks the
\* batch (main() is never called, nothing is computed); a message is reported
\* when the flow rate is negative, and none when only the first zone is null.
C9_InvalidInputBlocked ==
    InvalidInput =>
        /\ ~MainCalled
        /\ infPerAreaFacade = << >> /\ ventPerAreaFloor = << >>
        /\ pc = "end" =>
             messages = IF RLess(_airFlowRate.val, RZero)
                        THEN <<RateWarning>> ELSE << >>

C9_Witness ==
    /\ pc = "end"
    /\ InvalidInput
    /\ _HBZones[1] = "None"
    /\ ~RLess(_airFlowRate.val, RZero)
    /\ messages = << >>

====
